---- MODULE Spec2Model ----
(***************************************************************************)
(* The planner -> architect -> coder pipeline of src/agent/graph.py.       *)
(*                                                                         *)
(* The pipeline state is a mapping from keys to values (a function whose   *)
(* DOMAIN is the set of keys present).  CoderState instances are Python    *)
(* objects handled by reference: they live in `heap`, and the value kept   *)
(* under "coder_state" is an index into it.  The model backend and the     *)
(* tool-using agent are external: their answers are inputs drawn by \E.    *)
(***************************************************************************)
EXTENDS Naturals, Sequences, FiniteSets, TLC

VARIABLES
    node,     \* the graph node the executor is at: "plan", "architect", "coder", "END", "ERROR"
    pc,       \* "invoke": the node's role function is about to run; "merge": it has returned
    state,    \* the pipeline state mapping
    update,   \* the partial update the last role function returned, not merged yet
    heap,     \* the CoderState objects created so far
    fs,       \* the filesystem: path -> content, for the paths that exist
    log,      \* one record per role invocation, in order (history)
    written   \* path -> the content last written to it by a tool call of this run (history)

vars == <<node, pc, state, update, heap, fs, log, written>>

----------------------------------------------------------------------------
(* Bounds *)

MaxSteps == 2
MaxToolCalls == 1

(* The coder self-loop is cut after this many role invocations.  The code  *)
(* needs 2 + MaxSteps + 1 of them, so the cut is never reached by it.      *)
MaxInvocations == MaxSteps + 5

----------------------------------------------------------------------------
(* Values *)

UserPrompt == "Create a simple claculator web app"

None == [none |-> TRUE]

Paths == {"index.html", "app.js"}
Contents == {"old", "new"}

Plans == {[files |-> <<"index.html">>], [files |-> <<"index.html", "app.js">>]}

ImplementationSteps ==
    {[filepath |-> "index.html", task_description |-> "markup"],
     [filepath |-> "app.js", task_description |-> "logic"]}

SeqsUpTo(S, n) == UNION {[1..k -> S] : k \in 0..n}

TaskPlans == {[implementation_steps |-> s] : s \in SeqsUpTo(ImplementationSteps, MaxSteps)}

AgentResults == {[messages |-> "transcript"]}

WriteCalls == {[path |-> p, content |-> c] : p \in Paths, c \in Contents}

ToolCallSeqs == SeqsUpTo(WriteCalls, MaxToolCalls)

FileSystems == UNION {[D -> Contents] : D \in SUBSET Paths}

Empty == <<>>

----------------------------------------------------------------------------
(* File tools (read_file, write_file) *)

read_file(files, path) == IF path \in DOMAIN files THEN files[path] ELSE ""

write_file(files, path, content) ==
    [p \in DOMAIN files \cup {path} |-> IF p = path THEN content ELSE files[p]]

(* The tool-using agent may call write_file any number of times before it  *)
(* answers; tool_calls is the sequence of writes it chose to make.         *)
RECURSIVE run_tools(_, _)
run_tools(files, tool_calls) ==
    IF tool_calls = <<>> THEN files
    ELSE run_tools(write_file(files, Head(tool_calls).path, Head(tool_calls).content),
                   Tail(tool_calls))

----------------------------------------------------------------------------
(* Prompts *)

plan_prompt(user_prompt) == <<"PLANNER", user_prompt>>

architect_prompt(plan) == <<"ARCHITECT", plan>>

coder_system_prompt == "CODER"

(* Line 23: the plan the architect puts in its prompt is the plan's JSON    *)
(* dump when the object has one (a Plan), else its str().                  *)
has_model_dump_json(plan) == plan \in Plans

model_dump_json(plan) == [json |-> plan.files]

str(plan) == [str |-> plan]

coder_user_prompt_no_existing(current_task, existing_content) ==
    [task |-> current_task.task_description,
     file |-> current_task.filepath,
     existing |-> ""]

coder_user_prompt(current_task, existing_content) ==
    [task |-> current_task.task_description,
     file |-> current_task.filepath,
     existing |-> existing_content]

----------------------------------------------------------------------------
(* Role functions.  Each yields the outcome of one invocation:             *)
(*   raised  the invocation ended in ValueError                            *)
(*   update  the dict it returned (Empty when it raised)                   *)
(*   calls   how many requests it issued to the model backend              *)
(*   null    the backend answered None                                     *)
(*   prompt  what it sent                                                  *)

plannerAgent_unchecked(st, response) ==
    [raised |-> FALSE,
     update |-> [plan |-> response],
     calls  |-> 1,
     null   |-> response = None,
     prompt |-> plan_prompt(st["user_prompt"])]

plannerAgent(st, response) ==
    [raised |-> response = None,
     update |-> IF response = None THEN Empty ELSE [plan |-> response],
     calls  |-> 1,
     null   |-> response = None,
     prompt |-> plan_prompt(st["user_prompt"])]

architectAgent_retries(st, response) ==
    LET plan == st["plan"]
        plan_str == IF has_model_dump_json(plan) THEN model_dump_json(plan) ELSE str(plan)
    IN  [raised |-> response = None,
         update |-> IF response = None THEN Empty
                    ELSE [task_plan |-> response, plan |-> plan],
         calls  |-> IF response = None THEN 2 ELSE 1,
         null   |-> response = None,
         prompt |-> architect_prompt(plan_str)]

architectAgent_restates_plan(st, response) ==
    LET plan == st["plan"]
        plan_str == IF has_model_dump_json(plan) THEN model_dump_json(plan) ELSE str(plan)
    IN  [raised |-> response = None,
         update |-> IF response = None THEN Empty
                    ELSE [task_plan |-> response, plan |-> plan_str],
         calls  |-> 1,
         null   |-> response = None,
         prompt |-> architect_prompt(plan_str)]

architectAgent(st, response) ==
    LET plan == st["plan"]
        plan_str == IF has_model_dump_json(plan) THEN model_dump_json(plan) ELSE str(plan)
    IN  [raised |-> response = None,
         update |-> IF response = None THEN Empty
                    ELSE [task_plan |-> response, plan |-> plan],
         calls  |-> 1,
         null   |-> response = None,
         prompt |-> architect_prompt(plan_str)]

CoderState(task_plan, current_step_idx) ==
    [task_plan |-> task_plan, current_step_idx |-> current_step_idx]

get_coder_state_fresh(st, hp) ==
    [heap |-> Append(hp, CoderState(st["task_plan"], 0)), ref |-> Len(hp) + 1]

(* state.get("coder_state"), or a fresh CoderState when it is absent *)
get_coder_state(st, hp) ==
    IF "coder_state" \in DOMAIN st
    THEN [heap |-> hp, ref |-> st["coder_state"]]
    ELSE [heap |-> Append(hp, CoderState(st["task_plan"], 0)), ref |-> Len(hp) + 1]

is_done_early(current_step_index, steps) == current_step_index + 1 >= Len(steps)

is_done(current_step_index, steps) == current_step_index >= Len(steps)

done_return_copies(hp, cs) ==
    [heap   |-> Append(hp, hp[cs]),
     update |-> [coder_state |-> Len(hp) + 1, status |-> "DONE"]]

done_return_advances(hp, cs) ==
    [heap   |-> [hp EXCEPT ![cs].current_step_idx = @ + 1],
     update |-> [coder_state |-> cs, status |-> "DONE"]]

done_return(hp, cs) ==
    [heap |-> hp, update |-> [coder_state |-> cs, status |-> "DONE"]]

step_return_pops(hp, cs) ==
    [heap   |-> [hp EXCEPT ![cs].task_plan.implementation_steps = Tail(@)],
     update |-> [coder_state |-> cs]]

step_return_stuck(hp, cs) ==
    [heap |-> hp, update |-> [coder_state |-> cs]]

step_return_skips(hp, cs) ==
    [heap   |-> [hp EXCEPT ![cs].current_step_idx = @ + 2],
     update |-> [coder_state |-> cs]]

step_return(hp, cs) ==
    [heap   |-> [hp EXCEPT ![cs].current_step_idx = @ + 1],
     update |-> [coder_state |-> cs]]

current_task_of_reversed(steps, current_step_index) ==
    steps[Len(steps) - current_step_index]

(* Line 40: the step the cursor points at (Python indexes from 0) *)
current_task_of(steps, current_step_index) == steps[current_step_index + 1]

read_existing_unchecked(files, current_task) ==
    IF current_task.filepath \in DOMAIN files THEN files[current_task.filepath] ELSE "None"

read_existing_by_description(files, current_task) ==
    read_file(files, current_task.task_description)

(* Line 42: the existing content is read_file of the step's filepath *)
read_existing(files, current_task) == read_file(files, current_task.filepath)

coderAgent_works_when_done(st, hp, files, result, tool_calls) ==
    LET got   == get_coder_state(st, hp)
        cs    == got.ref
        steps == got.heap[cs].task_plan.implementation_steps
        current_step_index == got.heap[cs].current_step_idx
    IN  IF is_done(current_step_index, steps)
        THEN LET r == done_return(got.heap, cs)
             IN  [raised |-> FALSE, update |-> r.update, heap |-> r.heap,
                  fs |-> run_tools(files, tool_calls),
                  calls |-> 1, null |-> FALSE, prompt |-> Empty,
                  cursor |-> current_step_index, terminal |-> TRUE,
                  after |-> r.heap[cs].current_step_idx,
                  reads |-> <<>>, writes |-> tool_calls]
        ELSE LET current_task == current_task_of(steps, current_step_index)
                 existing_content == read_existing(files, current_task)
                 user_prompt == coder_user_prompt(current_task, existing_content)
                 r == step_return(got.heap, cs)
             IN  [raised |-> result = None,
                  update |-> IF result = None THEN Empty ELSE r.update,
                  heap   |-> IF result = None THEN got.heap ELSE r.heap,
                  fs     |-> run_tools(files, tool_calls),
                  calls  |-> 1,
                  null   |-> result = None,
                  prompt |-> <<coder_system_prompt, user_prompt>>,
                  cursor |-> current_step_index, terminal |-> FALSE,
                  after |-> IF result = None THEN current_step_index
                            ELSE r.heap[cs].current_step_idx,
                  reads |-> <<current_task.filepath>>, writes |-> tool_calls]

coderAgent_advances_first(st, hp, files, result, tool_calls) ==
    LET got   == get_coder_state(st, hp)
        cs    == got.ref
        steps == got.heap[cs].task_plan.implementation_steps
        current_step_index == got.heap[cs].current_step_idx
    IN  IF is_done(current_step_index, steps)
        THEN LET r == done_return(got.heap, cs)
             IN  [raised |-> FALSE, update |-> r.update, heap |-> r.heap, fs |-> files,
                  calls |-> 0, null |-> FALSE, prompt |-> Empty,
                  cursor |-> current_step_index, terminal |-> TRUE,
                  after |-> r.heap[cs].current_step_idx,
                  reads |-> <<>>, writes |-> <<>>]
        ELSE LET current_task == current_task_of(steps, current_step_index)
                 existing_content == read_existing(files, current_task)
                 user_prompt == coder_user_prompt(current_task, existing_content)
                 r == step_return(got.heap, cs)
             IN  [raised |-> result = None,
                  update |-> IF result = None THEN Empty ELSE r.update,
                  heap   |-> r.heap,
                  fs     |-> run_tools(files, tool_calls),
                  calls  |-> 1,
                  null   |-> result = None,
                  prompt |-> <<coder_system_prompt, user_prompt>>,
                  cursor |-> current_step_index, terminal |-> FALSE,
                  after |-> r.heap[cs].current_step_idx,
                  reads |-> <<current_task.filepath>>, writes |-> tool_calls]

(* reads: the paths the role function itself read; writes: the write_file  *)
(* calls the agent made while the backend call was in progress.            *)
coderAgent(st, hp, files, result, tool_calls) ==
    LET got   == get_coder_state(st, hp)
        cs    == got.ref
        steps == got.heap[cs].task_plan.implementation_steps
        current_step_index == got.heap[cs].current_step_idx
    IN  IF is_done(current_step_index, steps)
        THEN LET r == done_return(got.heap, cs)
             IN  [raised |-> FALSE, update |-> r.update, heap |-> r.heap, fs |-> files,
                  calls |-> 0, null |-> FALSE, prompt |-> Empty,
                  cursor |-> current_step_index, terminal |-> TRUE,
                  after |-> r.heap[cs].current_step_idx,
                  reads |-> <<>>, writes |-> <<>>]
        ELSE LET current_task == current_task_of(steps, current_step_index)
                 existing_content == read_existing(files, current_task)
                 user_prompt == coder_user_prompt(current_task, existing_content)
                 r == step_return(got.heap, cs)
             IN  [raised |-> result = None,
                  update |-> IF result = None THEN Empty ELSE r.update,
                  heap   |-> IF result = None THEN got.heap ELSE r.heap,
                  fs     |-> run_tools(files, tool_calls),
                  calls  |-> 1,
                  null   |-> result = None,
                  prompt |-> <<coder_system_prompt, user_prompt>>,
                  cursor |-> current_step_index, terminal |-> FALSE,
                  after |-> IF result = None THEN current_step_index
                            ELSE r.heap[cs].current_step_idx,
                  reads |-> <<current_task.filepath>>, writes |-> tool_calls]

----------------------------------------------------------------------------
(* The graph executor.  It merges a role's returned dict into the state    *)
(* key by key (graph.py line 16: "Return a dict so LangGraph can merge it  *)
(* into the state") and follows the edge out of the node.                  *)

Merge(st, upd) ==
    [k \in DOMAIN st \cup DOMAIN upd |-> IF k \in DOMAIN upd THEN upd[k] ELSE st[k]]

route_misspelt(s) == IF "status" \in DOMAIN s /\ s["status"] = "done" THEN "END" ELSE "coder"

route_inverted(s) ==
    IF "status" \in DOMAIN s /\ s["status"] = "DONE" THEN "coder" ELSE "END"

route(s) == IF "status" \in DOMAIN s /\ s["status"] = "DONE" THEN "END" ELSE "coder"

next_node(n, s) ==
    CASE n = "plan"      -> "architect"
      [] n = "architect" -> "coder"
      [] n = "coder"     -> route(s)

(* What the log keeps of an invocation: its outcome and, for the coder,   *)
(* the cursor it read (cursor), the cursor it left (after) and whether it *)
(* took the cursor >= len(steps) branch (terminal).                       *)
(* reads are the paths the role function read with read_file.             *)
Entry(role, o, cursor, after, terminal, reads) ==
    [role |-> role, raised |-> o.raised, update |-> o.update, calls |-> o.calls,
     null |-> o.null, prompt |-> o.prompt, cursor |-> cursor, after |-> after,
     terminal |-> terminal, reads |-> reads]

Returned(role, o, cursor, after, terminal, reads) ==
    /\ log' = Append(log, Entry(role, o, cursor, after, terminal, reads))
    /\ update' = o.update
    /\ node' = IF o.raised THEN "ERROR" ELSE node
    /\ pc' = IF o.raised THEN "stop" ELSE "merge"

Init ==
    /\ node = "plan"
    /\ pc = "invoke"
    /\ state = [user_prompt |-> UserPrompt]
    /\ update = Empty
    /\ heap = <<>>
    /\ fs \in FileSystems
    /\ log = <<>>
    /\ written = <<>>

Planner ==
    /\ node = "plan" /\ pc = "invoke"
    /\ \E response \in Plans \cup {None} :
          Returned("plan", plannerAgent(state, response), 0, 0, FALSE, <<>>)
    /\ UNCHANGED <<state, heap, fs, written>>

Architect ==
    /\ node = "architect" /\ pc = "invoke"
    /\ \E response \in TaskPlans \cup {None} :
          Returned("architect", architectAgent(state, response), 0, 0, FALSE, <<>>)
    /\ UNCHANGED <<state, heap, fs, written>>

Coder ==
    /\ node = "coder" /\ pc = "invoke"
    /\ Len(log) < MaxInvocations
    /\ \E result \in AgentResults \cup {None}, tool_calls \in ToolCallSeqs :
          LET o == coderAgent(state, heap, fs, result, tool_calls)
          IN  /\ Returned("coder", o, o.cursor, o.after, o.terminal, o.reads)
              /\ heap' = o.heap
              /\ fs' = o.fs
              /\ written' = run_tools(written, o.writes)
    /\ UNCHANGED state

MergeAndRoute ==
    /\ pc = "merge"
    /\ state' = Merge(state, update)
    /\ update' = Empty
    /\ node' = next_node(node, state')
    /\ pc' = IF node' = "END" THEN "stop" ELSE "invoke"
    /\ UNCHANGED <<heap, fs, log, written>>

Next == Planner \/ Architect \/ Coder \/ MergeAndRoute

Spec == Init /\ [][Next]_vars

(* The executor is a running loop: a step that can be taken is taken. *)
FairSpec == Spec /\ WF_vars(Next)

----------------------------------------------------------------------------
(* Views of the run used by the properties below *)

CoderLog == SelectSeq(log, LAMBDA e : e.role = "coder")

NoNull == \A i \in 1..Len(log) : ~log[i].null

(* The number of steps of the TaskPlan the architect returned *)
StepCount == Len(log[2].update["task_plan"].implementation_steps)

HasCoderState == "coder_state" \in DOMAIN state

----------------------------------------------------------------------------
(* C1: in a run that reached END (so every backend call answered non-null) *)
(* with a TaskPlan of N steps, coderAgent was invoked exactly N+1 times:   *)
(* N processing invocations, then one terminal invocation returning        *)
(* status "DONE".                                                          *)
C1_CoderInvokedNPlusOne ==
    node = "END" =>
        /\ NoNull
        /\ Len(CoderLog) = StepCount + 1
        /\ \A i \in 1..StepCount :
              /\ ~CoderLog[i].terminal
              /\ ~CoderLog[i].raised
              /\ CoderLog[i].calls = 1
              /\ "status" \notin DOMAIN CoderLog[i].update
        /\ CoderLog[StepCount + 1].terminal
        /\ "status" \in DOMAIN CoderLog[StepCount + 1].update
        /\ CoderLog[StepCount + 1].update["status"] = "DONE"

C1_Witness ==
    /\ node = "END"
    /\ StepCount = 2
    /\ Len(CoderLog) = 3

(* C2: over the coder invocations of a run, the cursor starts at 0, is     *)
(* carried from one invocation to the next, goes up by exactly one on each *)
(* non-terminal invocation that returns, never exceeds the step count, and *)
(* status "DONE" is returned only by an invocation that found the cursor   *)
(* equal to the step count (so never by the one processing the last step). *)
C2_CursorDiscipline ==
    /\ \A k \in 1..Len(heap) :
          heap[k].current_step_idx <= Len(heap[k].task_plan.implementation_steps)
    /\ \A i \in 1..Len(CoderLog) :
          LET e == CoderLog[i]
              N == StepCount
          IN  /\ e.cursor = IF i = 1 THEN 0 ELSE CoderLog[i - 1].after
              /\ e.after <= N
              /\ (~e.terminal /\ ~e.raised) => e.after = e.cursor + 1
              /\ e.terminal => e.after = e.cursor
              /\ "status" \in DOMAIN e.update =>
                    /\ e.update["status"] = "DONE"
                    /\ e.cursor = N
                    /\ e.terminal
              /\ e.cursor < N => ~e.terminal

C2_Witness ==
    /\ Len(CoderLog) = 3
    /\ CoderLog[2].cursor = 1 /\ CoderLog[2].after = 2
    /\ CoderLog[3].cursor = 2 /\ CoderLog[3].terminal
    /\ "status" \in DOMAIN CoderLog[3].update

(* C3: on a state whose CoderState has its cursor at or past the step      *)
(* count, coderAgent returns {coder_state, status: "DONE"} whatever the    *)
(* backend would answer, invoking it again on the merged state returns the *)
(* same, and neither invocation changes the task plan or the cursor.       *)
C3_DoneIdempotent ==
    (/\ HasCoderState
     /\ heap[state["coder_state"]].current_step_idx >=
            Len(heap[state["coder_state"]].task_plan.implementation_steps)) =>
        LET done   == [coder_state |-> state["coder_state"], status |-> "DONE"]
            merged == Merge(state, done)
        IN  /\ \A r1 \in AgentResults \cup {None}, t1 \in ToolCallSeqs :
                  LET o1 == coderAgent(state, heap, fs, r1, t1)
                  IN  ~o1.raised /\ o1.update = done /\ o1.heap = heap /\ o1.fs = fs
            /\ \A r2 \in AgentResults \cup {None}, t2 \in ToolCallSeqs :
                  LET o2 == coderAgent(merged, heap, fs, r2, t2)
                  IN  ~o2.raised /\ o2.update = done /\ o2.heap = heap /\ o2.fs = fs
            /\ \A k \in DOMAIN state \ {"status"} : merged[k] = state[k]
            /\ Merge(merged, done) = merged

C3_Witness ==
    /\ node = "END"
    /\ StepCount = 2
    /\ heap[state["coder_state"]].current_step_idx = 2
    /\ state["status"] = "DONE"

----------------------------------------------------------------------------
(* C4: a role whose backend call answers None raises, the run is then in   *)
(* the error state, and that invocation is the last one of the run (no     *)
(* next role, no further coder iteration); every invocation but the first  *)
(* follows one whose backend answer was not None.                          *)
C4_NullStopsRun ==
    /\ \A i \in 1..Len(log) :
          /\ log[i].raised <=> log[i].null
          /\ log[i].null => (i = Len(log) /\ node = "ERROR" /\ pc = "stop")
          /\ i > 1 => (~log[i - 1].null /\ ~log[i - 1].raised)
    /\ node = "ERROR" => (Len(log) > 0 /\ log[Len(log)].null)
    /\ node = "END" => NoNull

C4_Witness ==
    /\ node = "ERROR"
    /\ Len(log) = 4
    /\ log[4].role = "coder" /\ log[4].null /\ log[4].cursor = 1

(* C5: the invocations follow the topology: the first is the planner, the  *)
(* second the architect, all later ones the coder; the executor is at the  *)
(* node the log implies; END is entered only by the routing step right     *)
(* after a coder invocation, exactly when the merged state's status is     *)
(* "DONE", and otherwise that step leads to coder again.                   *)
TopologyInv ==
    /\ \A i \in 1..Len(log) :
          log[i].role = IF i = 1 THEN "plan" ELSE IF i = 2 THEN "architect" ELSE "coder"
    /\ Len(log) = 0 => node = "plan"
    /\ node = "plan" => Len(log) <= 1
    /\ node = "architect" => Len(log) \in {1, 2}
    /\ node = "coder" => Len(log) >= 2
    /\ node = "END" =>
          /\ Len(log) >= 3
          /\ log[Len(log)].role = "coder"
          /\ "status" \in DOMAIN state /\ state["status"] = "DONE"

RouteStep ==
    /\ (node # "END" /\ node' = "END") =>
          (node = "coder" /\ pc = "merge" /\ log[Len(log)].role = "coder")
    /\ (node = "coder" /\ pc = "merge") =>
          node' = IF "status" \in DOMAIN state' /\ state'["status"] = "DONE"
                  THEN "END" ELSE "coder"
    /\ (node = "plan" /\ pc = "merge") => node' = "architect"
    /\ (node = "architect" /\ pc = "merge") => node' = "coder"

C5_Topology == []TopologyInv /\ [][RouteStep]_vars

C5_Witness ==
    /\ node = "END"
    /\ Len(log) = 4
    /\ log[1].role = "plan" /\ log[2].role = "architect"
    /\ log[3].role = "coder" /\ log[4].role = "coder"

(* C6: a run in which no backend call answers None reaches END (checked    *)
(* under FairSpec: the executor keeps running).                            *)
C6_ReachesEnd == <>(node = "END" \/ ~NoNull)

C6_Witness ==
    /\ node = "END"
    /\ NoNull
    /\ StepCount = MaxSteps
    /\ Len(log) = MaxSteps + 3

(* C7: the state never loses a key, and at END user_prompt, plan,          *)
(* task_plan, coder_state and status are all present.  This rests on Merge *)
(* alone, that is on how the LangGraph executor treats StateGraph(dict),   *)
(* which the repository's code does not decide.                            *)
AllKeys == {"user_prompt", "plan", "task_plan", "coder_state", "status"}

C7_KeysAccumulate ==
    /\ [][DOMAIN state \subseteq DOMAIN state']_vars
    /\ [](node = "END" => DOMAIN state = AllKeys)

C7_Witness ==
    /\ node = "END"
    /\ DOMAIN state = AllKeys
    /\ StepCount = 1

----------------------------------------------------------------------------
(* C8 as stated: every role invocation issues exactly one backend call.    *)
C8_Original_OneCallEach == \A i \in 1..Len(log) : log[i].calls = 1

(* C8: every planner, architect and non-terminal coder invocation issues   *)
(* exactly one backend call (also when the answer is None); the terminal   *)
(* coder invocation issues none.                                           *)
C8_OneCallUnlessTerminal ==
    \A i \in 1..Len(log) :
        log[i].calls = IF log[i].role = "coder" /\ log[i].terminal THEN 0 ELSE 1

C8_Witness ==
    /\ Len(log) = 4
    /\ log[3].role = "coder" /\ ~log[3].terminal /\ log[3].calls = 1
    /\ log[4].role = "coder" /\ log[4].terminal /\ log[4].calls = 0

(* What a role function can reach from the state it is handed: the values  *)
(* under the keys, with the CoderState object in place of its reference.   *)
View(st, hp) ==
    [k \in DOMAIN st |-> IF k = "coder_state" THEN hp[st[k]] ELSE st[k]]

(* C9 as stated: while a role function runs (from its invocation to the    *)
(* merge) nothing reachable from the incoming state is modified.           *)
C9_Original_ReadOnlyView ==
    [][pc = "invoke" => View(state, heap)' = View(state, heap)]_vars

(* C9: a role function never changes the state mapping (keys and the       *)
(* values bound to them change only in the executor's merge, which touches *)
(* no object), never changes a CoderState's task_plan, and changes a       *)
(* cursor only in a non-terminal coder invocation that returns, which adds *)
(* one to the cursor of the CoderState it works on.                        *)
RoleStepFrame ==
    pc = "invoke" =>
        /\ state' = state
        /\ \A k \in 1..Len(heap) :
              /\ heap'[k].task_plan = heap[k].task_plan
              /\ \/ heap'[k].current_step_idx = heap[k].current_step_idx
                 \/ /\ node = "coder"
                    /\ HasCoderState /\ k = state["coder_state"]
                    /\ ~log'[Len(log')].terminal /\ ~log'[Len(log')].raised
                    /\ heap'[k].current_step_idx = heap[k].current_step_idx + 1

MergeStepFrame ==
    pc = "merge" => (heap' = heap /\ state' = Merge(state, update))

C9_OnlyCursorInPlace == [][RoleStepFrame /\ MergeStepFrame]_vars

C9_Witness ==
    /\ node = "coder" /\ pc = "merge"
    /\ HasCoderState
    /\ Len(log) = 4 /\ ~log[4].terminal
    /\ heap[state["coder_state"]].current_step_idx = 2

(* C10: merging the architect's update leaves every key already present,   *)
(* plan included, with the value it had (the plan the planner returned),   *)
(* and adds the key task_plan and no other.                                *)
ArchitectMergeStep ==
    (node = "architect" /\ pc = "merge") =>
        /\ state["plan"] = log[1].update["plan"]
        /\ state'["plan"] = state["plan"]
        /\ \A k \in DOMAIN state : state'[k] = state[k]
        /\ DOMAIN state' = DOMAIN state \cup {"task_plan"}
        /\ "task_plan" \notin DOMAIN state
        /\ state'["task_plan"] = log[2].update["task_plan"]

C10_PlanPassedThrough == [][ArchitectMergeStep]_vars

C10_Witness ==
    /\ node = "coder" /\ Len(log) = 2
    /\ state["plan"] = log[1].update["plan"]
    /\ state["task_plan"] = log[2].update["task_plan"]
    /\ StepCount = 2

----------------------------------------------------------------------------
(* Views for the properties about single coder invocations *)

(* The steps of the TaskPlan the architect returned *)
ArchSteps == log[2].update["task_plan"].implementation_steps

(* A coder invocation takes place in this step, and the record it leaves *)
CoderInvoked == node = "coder" /\ pc = "invoke" /\ Len(log') = Len(log) + 1

NewEntry == log'[Len(log')]

(* C11: a coder step whose target file does not exist when the invocation  *)
(* starts gets empty existing content from read_file, still makes its      *)
(* backend call, raises only if the backend answers None, and otherwise    *)
(* advances the cursor and hands over to the merge.                        *)
StepOnAbsentFile ==
    (/\ CoderInvoked
     /\ ~NewEntry.terminal
     /\ ArchSteps[NewEntry.cursor + 1].filepath \notin DOMAIN fs) =>
        /\ NewEntry.reads = <<ArchSteps[NewEntry.cursor + 1].filepath>>
        /\ NewEntry.prompt[2].existing = ""
        /\ NewEntry.calls = 1
        /\ NewEntry.raised <=> NewEntry.null
        /\ ~NewEntry.null =>
              /\ NewEntry.after = NewEntry.cursor + 1
              /\ node' = "coder" /\ pc' = "merge"

C11_AbsentFileReadsEmpty == [][StepOnAbsentFile]_vars

C11_Witness ==
    /\ node = "coder" /\ pc = "merge"
    /\ ~log[Len(log)].terminal
    /\ log[Len(log)].prompt[2].file \notin DOMAIN fs
    /\ log[Len(log)].prompt[2].existing = ""
    /\ log[Len(log)].after = 2

(* C12: reading a path after writing it gives what was written, also when  *)
(* the path held something else and when other paths are written after it; *)
(* every path written in this run reads back as its last written content;  *)
(* and a coder step whose target was written by an earlier step gets that  *)
(* content as its existing content.                                        *)
RoundTrip ==
    \A p \in Paths, c \in Contents :
        /\ read_file(write_file(fs, p, c), p) = c
        /\ \A q \in Paths \ {p}, d \in Contents :
              read_file(write_file(write_file(fs, p, c), q, d), p) = c

WrittenIsRead == \A p \in DOMAIN written : read_file(fs, p) = written[p]

LaterStepSeesWrite ==
    (/\ CoderInvoked
     /\ ~NewEntry.terminal
     /\ ArchSteps[NewEntry.cursor + 1].filepath \in DOMAIN written) =>
        NewEntry.prompt[2].existing = written[ArchSteps[NewEntry.cursor + 1].filepath]

C12_WriteThenRead == [](RoundTrip /\ WrittenIsRead) /\ [][LaterStepSeesWrite]_vars

C12_Witness ==
    /\ Len(CoderLog) = 2
    /\ ~CoderLog[2].terminal
    /\ CoderLog[1].prompt[2].file = CoderLog[2].prompt[2].file
    /\ CoderLog[1].prompt[2].existing = ""
    /\ CoderLog[2].prompt[2].existing = "new"
    /\ CoderLog[2].prompt[2].file \in DOMAIN written

(* C13: the k-th coder invocation that is not terminal works on step k of  *)
(* the architect's TaskPlan (index k-1), the terminal one comes after all  *)
(* N steps, and the cursor of the CoderState always equals the number of   *)
(* coder invocations whose backend call returned a result.                 *)
Completed == {i \in 1..Len(CoderLog) : ~CoderLog[i].terminal /\ ~CoderLog[i].raised}

C13_StepsInOrder ==
    /\ \A i \in 1..Len(CoderLog) :
          IF CoderLog[i].terminal
          THEN i = Len(ArchSteps) + 1
          ELSE /\ i <= Len(ArchSteps)
               /\ CoderLog[i].cursor = i - 1
               /\ CoderLog[i].prompt[2].task = ArchSteps[i].task_description
               /\ CoderLog[i].prompt[2].file = ArchSteps[i].filepath
               /\ CoderLog[i].reads = <<ArchSteps[i].filepath>>
    /\ \A k \in 1..Len(heap) : heap[k].current_step_idx = Cardinality(Completed)

C13_Witness ==
    /\ Len(CoderLog) = 2
    /\ Cardinality(Completed) = 2
    /\ CoderLog[1].prompt[2].file = "app.js"
    /\ CoderLog[2].prompt[2].file = "index.html"
    /\ heap[1].current_step_idx = 2

----------------------------------------------------------------------------
(* C14: at most one CoderState is ever created: the first coder invocation *)
(* creates it from the architect's task_plan and reads cursor 0 from it;   *)
(* once a coder update is merged, coder_state is in the state and refers   *)
(* to that object; and no step lowers its cursor.                          *)
OneCoderState ==
    /\ Len(heap) <= 1
    /\ Len(heap) = 1 <=> Len(CoderLog) >= 1
    /\ Len(CoderLog) >= 1 => CoderLog[1].cursor = 0
    /\ \A k \in 1..Len(heap) : heap[k].task_plan = log[2].update["task_plan"]
    /\ \A i \in 1..Len(CoderLog) :
          ~CoderLog[i].raised => CoderLog[i].update["coder_state"] = 1
    /\ HasCoderState => state["coder_state"] = 1
    /\ (Len(CoderLog) >= 2 \/ (Len(CoderLog) = 1 /\ pc # "merge" /\ node # "ERROR"))
          => HasCoderState

CursorNotReset ==
    /\ Len(heap') >= Len(heap)
    /\ \A k \in 1..Len(heap) :
          /\ heap'[k].current_step_idx >= heap[k].current_step_idx
          /\ heap'[k].task_plan = heap[k].task_plan
    /\ (CoderInvoked /\ Len(heap') > Len(heap)) =>
          (~HasCoderState /\ Len(CoderLog) = 0 /\ NewEntry.cursor = 0)

C14_CoderStateCreatedOnce == []OneCoderState /\ [][CursorNotReset]_vars

C14_Witness ==
    /\ Len(CoderLog) = 2
    /\ Len(heap) = 1
    /\ HasCoderState
    /\ CoderLog[2].cursor = 1
    /\ ~CoderLog[2].terminal

(* C15: the terminal coder invocation does no work: it makes no backend    *)
(* call, reads no file, and leaves the filesystem as it was; so does the   *)
(* first coder invocation of a run whose TaskPlan has no steps.            *)
TerminalDoesNothing ==
    (CoderInvoked /\ NewEntry.terminal) =>
        /\ NewEntry.calls = 0
        /\ NewEntry.reads = <<>>
        /\ NewEntry.prompt = Empty
        /\ fs' = fs
        /\ written' = written
        /\ ~NewEntry.raised
        /\ NewEntry.cursor >= Len(ArchSteps)

ZeroStepsIsTerminal ==
    (CoderInvoked /\ Len(ArchSteps) = 0) => (NewEntry.terminal /\ Len(CoderLog) = 0)

C15_TerminalNoWork == [][TerminalDoesNothing /\ ZeroStepsIsTerminal]_vars

C15_Witness ==
    /\ node = "END"
    /\ Len(ArchSteps) = 0
    /\ Len(CoderLog) = 1
    /\ CoderLog[1].terminal /\ CoderLog[1].calls = 0
    /\ DOMAIN fs = {"app.js"}

(* C16: a non-terminal coder invocation reads its step's target file and   *)
(* nothing else, and the existing content in its prompt is that file's     *)
(* content in the filesystem as the invocation found it (empty when the    *)
(* file is absent), not as the agent's tool calls left it.                 *)
ExistingIsContentAtStart ==
    (CoderInvoked /\ ~NewEntry.terminal) =>
        LET target == ArchSteps[NewEntry.cursor + 1].filepath
        IN  /\ NewEntry.reads = <<target>>
            /\ NewEntry.prompt[2].file = target
            /\ NewEntry.prompt[2].existing =
                  IF target \in DOMAIN fs THEN fs[target] ELSE ""

C16_ReadBeforeBackend == [][ExistingIsContentAtStart]_vars

C16_Witness ==
    /\ Len(CoderLog) = 2
    /\ ~CoderLog[2].terminal
    /\ CoderLog[2].prompt[2].existing = "old"
    /\ CoderLog[2].prompt[2].file \in DOMAIN fs
    /\ fs[CoderLog[2].prompt[2].file] = "new"
    /\ CoderLog[1].prompt[2].file = CoderLog[2].prompt[2].file
    /\ CoderLog[1].prompt[2].existing = "new"

----------------------------------------------------------------------------
(* C17: a coder invocation whose backend call answers None at cursor k is  *)
(* the only invocation at cursor k and the last of the run; the cursor is  *)
(* still k, no status was ever set, the run is in the error state, which   *)
(* no step leaves, and every file written by a tool call in this run,      *)
(* during the failing step included, still holds what was written.         *)
NullStepLeavesCursor ==
    \A i \in 1..Len(CoderLog) :
        CoderLog[i].null =>
            /\ i = Len(CoderLog)
            /\ node = "ERROR"
            /\ CoderLog[i].raised
            /\ CoderLog[i].after = CoderLog[i].cursor
            /\ \A k \in 1..Len(heap) : heap[k].current_step_idx = CoderLog[i].cursor
            /\ \A j \in 1..Len(CoderLog) : CoderLog[j].cursor = CoderLog[i].cursor => j = i
            /\ "status" \notin DOMAIN state
            /\ \A j \in 1..Len(CoderLog) : "status" \notin DOMAIN CoderLog[j].update
            /\ \A p \in DOMAIN written : p \in DOMAIN fs /\ fs[p] = written[p]

ErrorIsFinal == node = "ERROR" => (node' = "ERROR" /\ log' = log /\ fs' = fs /\ heap' = heap)

C17_NullDuringStep == []NullStepLeavesCursor /\ [][ErrorIsFinal]_vars

C17_Witness ==
    /\ node = "ERROR"
    /\ Len(CoderLog) = 2
    /\ CoderLog[2].null /\ CoderLog[2].cursor = 1
    /\ heap[1].current_step_idx = 1
    /\ CoderLog[2].prompt[2].file = "app.js"
    /\ CoderLog[2].prompt[2].existing = ""
    /\ "app.js" \in DOMAIN fs

(* C18: once the architect has returned, the task_plan in the pipeline     *)
(* state and the task_plan of the CoderState are the architect's TaskPlan  *)
(* in every later state, and no step changes either.                       *)
TaskPlanFrozen ==
    (Len(log) >= 2 /\ ~log[2].raised) =>
        /\ "task_plan" \in DOMAIN state => state["task_plan"] = log[2].update["task_plan"]
        /\ \A k \in 1..Len(heap) : heap[k].task_plan = log[2].update["task_plan"]
        /\ Len(CoderLog) >= 1 => Len(heap) >= 1

TaskPlanStep ==
    /\ \A k \in 1..Len(heap) : Len(heap') >= k /\ heap'[k].task_plan = heap[k].task_plan
    /\ ("task_plan" \in DOMAIN state /\ "task_plan" \in DOMAIN state')
          => state'["task_plan"] = state["task_plan"]
    /\ Len(log) >= 2 => (Len(log') >= 2 /\ log'[2] = log[2])

C18_TaskPlanUnchanged == []TaskPlanFrozen /\ [][TaskPlanStep]_vars

C18_Witness ==
    /\ node = "END"
    /\ Len(ArchSteps) = 2
    /\ ArchSteps[1].filepath # ArchSteps[2].filepath
    /\ heap[1].task_plan.implementation_steps = ArchSteps
    /\ heap[1].current_step_idx = 2

====
